---------------------------- MODULE Spec2Model ----------------------------
(***************************************************************************)
(* Model of the LiteLLM Formatter node                                     *)
(* (nodes/LiteLLMFormatter/LiteLlmFormatter.node.ts):                      *)
(*   - formatLiteLLMResponse, the normalizer, as an operator over          *)
(*     JavaScript values and, step by step, over an object heap;           *)
(*   - LiteLLMFormatter.execute, the batch runner, as a state machine      *)
(*     with one step per loop iteration.                                   *)
(***************************************************************************)
EXTENDS Integers, Sequences, FiniteSets, TLC

(***************************************************************************)
(* JavaScript values.  A value is a record tagged by t, its content in a   *)
(* field named after the tag.  An object is a function from its own keys   *)
(* to values; an array is a sequence plus the named (non-index)            *)
(* properties assigned to it; a string is the sequence of lexemes of its   *)
(* text, so that JSON text is a string like any other.                     *)
(***************************************************************************)
EmptyMap == [k \in {} |-> [t |-> "null"]]

\* The element of a one-element set.  Only({e(x) : x \in {d}}) is e(x)
\* where x is the value of d, d being evaluated once.
Only(S) == CHOOSE x \in S : TRUE

Null == [t |-> "null"]

Undef == [t |-> "undef"]

Bool(b) == [t |-> "bool", b |-> b]

Num(n) == [t |-> "num", n |-> n]

Str(s) == [t |-> "str", s |-> s]

Arr(s) == [t |-> "arr", a |-> s, x |-> EmptyMap]

Obj(f) == [t |-> "obj", o |-> f]

EmptyArr == Arr(<<>>)

EmptyObj == Obj(EmptyMap)

\* Lexemes of a text: punctuation, bare word, number, quoted string.
P(s) == [k |-> "p", s |-> s]

W(s) == [k |-> "w", s |-> s]

N(n) == [k |-> "n", n |-> n]

Q(c) == [k |-> "q", c |-> c]

\* The string whose text is the single word s.
Word(s) == Str(<<W(s)>>)

\* The order in which the keys of an object are enumerated.
KeyOrder == <<"choices", "message", "tool_calls", "function_call",
              "annotations", "index", "model", "name", "data", "out", "id">>

\* The keys of the map f, in enumeration order.
OwnKeys(f) == SelectSeq(KeyOrder, LAMBDA key : key \in DOMAIN f)

\* JavaScript truthiness (the conditions of lines 86, 126, 130, 164, 168).
Truthy(v) ==
    CASE v.t = "null"  -> FALSE
      [] v.t = "undef" -> FALSE
      [] v.t = "bool"  -> v.b
      [] v.t = "num"   -> v.n # 0
      [] v.t = "str"   -> v.s # <<>>
      [] OTHER         -> TRUE

\* Property read v[key] of a value that is neither null nor undefined.
Get(v, key) ==
    CASE v.t = "obj" -> IF key \in DOMAIN v.o THEN v.o[key] ELSE Undef
      [] v.t = "arr" -> IF key \in DOMAIN v.x THEN v.x[key] ELSE Undef
      [] OTHER       -> Undef

(***************************************************************************)
(* JSON.stringify: the text of a value.  A property whose value is         *)
(* undefined is left out, an undefined array element is written null, the  *)
(* named properties of an array are not written.                           *)
(***************************************************************************)
RECURSIVE Ser(_), SerElems(_, _), SerMembers(_, _, _)

Ser(v) ==
    CASE v.t = "null"  -> <<W("null")>>
      [] v.t = "undef" -> <<W("undefined")>>
      [] v.t = "bool"  -> <<W(IF v.b THEN "true" ELSE "false")>>
      [] v.t = "num"   -> <<N(v.n)>>
      [] v.t = "str"   -> <<Q(v.s)>>
      [] v.t = "arr"   -> <<P("[")>> \o SerElems(v.a, 1) \o <<P("]")>>
      [] v.t = "obj"   ->
             <<P("{")>> \o SerMembers(v.o, OwnKeys(v.o), TRUE) \o <<P("}")>>

SerElems(s, i) ==
    IF i > Len(s) THEN <<>>
    ELSE (IF i > 1 THEN <<P(",")>> ELSE <<>>)
         \o (IF s[i].t = "undef" THEN <<W("null")>> ELSE Ser(s[i]))
         \o SerElems(s, i + 1)

SerMembers(f, keys, first) ==
    IF keys = <<>> THEN <<>>
    ELSE LET key == Head(keys) IN
         IF f[key].t # "undef"
         THEN (IF first THEN <<>> ELSE <<P(",")>>)
              \o <<Q(<<W(key)>>), P(":")>> \o Ser(f[key])
              \o SerMembers(f, Tail(keys), FALSE)
         ELSE SerMembers(f, Tail(keys), first)

JsonStringify(v) == Ser(v)

(***************************************************************************)
(* JSON.parse: a recursive-descent parse of a text.  A result is           *)
(* [ok, v, n]: whether a value was read, the value, the next position.     *)
(***************************************************************************)
ParseFail == [ok |-> FALSE, v |-> Null, n |-> 0]

ParseOk(v, n) == [ok |-> TRUE, v |-> v, n |-> n]

IsP(toks, i, s) == i <= Len(toks) /\ toks[i].k = "p" /\ toks[i].s = s

\* The key a quoted string names (keys are single words).
KeyOf(tok) == tok.c[1].s

IsKey(toks, i) ==
    /\ i <= Len(toks)
    /\ toks[i].k = "q"
    /\ Len(toks[i].c) = 1
    /\ toks[i].c[1].k = "w"

RECURSIVE ParseValue(_, _), ParseElements(_, _, _), ParseMembers(_, _, _)

ParseValue(toks, i) ==
    IF i > Len(toks) THEN ParseFail
    ELSE LET tk == toks[i] IN
         CASE tk.k = "w" ->
                  CASE tk.s = "null"  -> ParseOk(Null, i + 1)
                    [] tk.s = "true"  -> ParseOk(Bool(TRUE), i + 1)
                    [] tk.s = "false" -> ParseOk(Bool(FALSE), i + 1)
                    [] OTHER          -> ParseFail
           [] tk.k = "n" -> ParseOk(Num(tk.n), i + 1)
           [] tk.k = "q" -> ParseOk(Str(tk.c), i + 1)
           [] tk.k = "p" ->
                  CASE tk.s = "[" ->
                           IF IsP(toks, i + 1, "]")
                           THEN ParseOk(EmptyArr, i + 2)
                           ELSE ParseElements(toks, i + 1, <<>>)
                    [] tk.s = "{" ->
                           IF IsP(toks, i + 1, "}")
                           THEN ParseOk(EmptyObj, i + 2)
                           ELSE ParseMembers(toks, i + 1, EmptyMap)
                    [] OTHER -> ParseFail

ParseElements(toks, i, acc) ==
    Only({IF ~r.ok THEN ParseFail
          ELSE IF IsP(toks, r.n, ",")
               THEN ParseElements(toks, r.n + 1, Append(acc, r.v))
               ELSE IF IsP(toks, r.n, "]")
                    THEN ParseOk(Arr(Append(acc, r.v)), r.n + 1)
                    ELSE ParseFail
          : r \in {ParseValue(toks, i)}})

\* A key written twice keeps its last value.
ParseMembers(toks, i, acc) ==
    IF ~(IsKey(toks, i) /\ IsP(toks, i + 1, ":")) THEN ParseFail
    ELSE Only({IF ~r.ok THEN ParseFail
               ELSE LET acc2 == (KeyOf(toks[i]) :> r.v) @@ acc IN
                    IF IsP(toks, r.n, ",")
                    THEN ParseMembers(toks, r.n + 1, acc2)
                    ELSE IF IsP(toks, r.n, "}")
                         THEN ParseOk(Obj(acc2), r.n + 1)
                         ELSE ParseFail
               : r \in {ParseValue(toks, i + 2)}})

\* [ok, v]: ok is FALSE where JSON.parse throws a SyntaxError.
JsonParse(text) ==
    Only({IF r.ok /\ r.n = Len(text) + 1
          THEN [ok |-> TRUE, v |-> r.v]
          ELSE [ok |-> FALSE, v |-> Null]
          : r \in {ParseValue(text, 1)}})

(***************************************************************************)
(* formatLiteLLMResponse (lines 159-200) over values.  A result is         *)
(* [kind, val, itemIndex, choiceIndex]: kind "ok" with the returned value, *)
(* or the kind of the error thrown.  A NodeOperationError carries the      *)
(* itemIndex it was built with; a TypeError or SyntaxError raised by the   *)
(* runtime carries none (-1).                                              *)
(***************************************************************************)
Ret(v) == [kind |-> "ok", val |-> v, itemIndex |-> -1, choiceIndex |-> -1]

Throw(kind, itemIndex, choiceIndex) ==
    [kind |-> kind, val |-> Undef, itemIndex |-> itemIndex,
     choiceIndex |-> choiceIndex]

IsContainer(v) == v.t \in {"obj", "arr"}

\* The assignment v[key] = val on an object or an array.
SetProp(v, key, val) ==
    IF v.t = "obj"
    THEN Obj((key :> val) @@ v.o)
    ELSE [v EXCEPT !.x = (key :> val) @@ v.x]

\* CoerceMessage with == null in place of === null at lines 170 and 175,
\* which an absent key satisfies too.
CoerceMessageLoose(message) ==
    LET tc == Get(message, "tool_calls")
        m1 == IF tc = Null \/ tc = Undef
              THEN SetProp(message, "tool_calls", EmptyArr)
              ELSE message
        fc == Get(m1, "function_call")
        m2 == IF fc = Null \/ fc = Undef
              THEN SetProp(m1, "function_call", EmptyObj)
              ELSE m1
        annotations == Get(m2, "annotations")
    IN  IF annotations = Null \/ annotations = Undef
        THEN Ret(SetProp(m2, "annotations", EmptyArr))
        ELSE Ret(m2)

\* Lines 169-182, on a truthy message.  The module is strict-mode code
\* (it is an ES module), so creating a property on a primitive message
\* throws a TypeError.
CoerceMessage(message) ==
    LET m1 == IF Get(message, "tool_calls") = Null
              THEN SetProp(message, "tool_calls", EmptyArr)
              ELSE message
        m2 == IF Get(m1, "function_call") = Null
              THEN SetProp(m1, "function_call", EmptyObj)
              ELSE m1
        annotations == Get(m2, "annotations")
    IN  IF annotations = Null \/ annotations = Undef
        THEN IF IsContainer(m2)
             THEN Ret(SetProp(m2, "annotations", EmptyArr))
             ELSE Throw("TypeError", -1, -1)
        ELSE Ret(m2)

\* FormatChoice giving a choice without a message an empty one in
\* non-strict mode.
FormatChoiceDefaulting(choice, strictMode, itemIndex, i) ==
    IF choice.t \in {"null", "undef"}
    THEN Throw("TypeError", -1, -1)
    ELSE LET message == Get(choice, "message") IN
         IF Truthy(message)
         THEN Only({IF c.kind = "ok"
                    THEN Ret(SetProp(choice, "message", c.val))
                    ELSE c
                    : c \in {CoerceMessage(message)}})
         ELSE IF strictMode
              THEN Throw("MissingMessage", itemIndex, i)
              ELSE IF IsContainer(choice)
                   THEN Ret(SetProp(choice, "message", EmptyObj))
                   ELSE Ret(choice)

\* Lines 166-189: one iteration of the loop, on the choice at index i.
FormatChoice(choice, strictMode, itemIndex, i) ==
    IF choice.t \in {"null", "undef"}
    THEN Throw("TypeError", -1, -1)
    ELSE LET message == Get(choice, "message") IN
         IF Truthy(message)
         THEN Only({IF c.kind = "ok"
                    THEN Ret(SetProp(choice, "message", c.val))
                    ELSE c
                    : c \in {CoerceMessage(message)}})
         ELSE IF strictMode
              THEN Throw("MissingMessage", itemIndex, i)
              ELSE Ret(choice)

\* Lines 165-190: the loop from (1-based) position p on; val is the
\* sequence of the choices from p on after the loop.
RECURSIVE FormatChoices(_, _, _, _)

FormatChoices(choices, p, strictMode, itemIndex) ==
    IF p > Len(choices) THEN Ret(<<>>)
    ELSE Only({IF c.kind # "ok" THEN c
               ELSE Only({IF rest.kind # "ok" THEN rest
                          ELSE Ret(<<c.val>> \o rest.val)
                          : rest \in {FormatChoices(choices, p + 1, strictMode,
                                                    itemIndex)}})
               : c \in {FormatChoice(choices[p], strictMode, itemIndex,
                                     p - 1)}})

\* Line 161: JSON.parse(JSON.stringify(data)).
JsonClone(data) == Only({JsonParse(text) : text \in {JsonStringify(data)}})

\* Lines 164-199, on the clone.
FormatCloned(clonedData, strictMode, itemIndex) ==
    IF clonedData.t \in {"null", "undef"}
    THEN Throw("TypeError", -1, -1)
    ELSE LET choices == Get(clonedData, "choices") IN
         IF Truthy(choices) /\ choices.t = "arr"
         THEN Only({IF r.kind # "ok" THEN r
                    ELSE Ret(SetProp(clonedData, "choices",
                                     [choices EXCEPT !.a = r.val]))
                    : r \in {FormatChoices(choices.a, 1, strictMode,
                                           itemIndex)}})
         ELSE IF strictMode
              THEN Throw("InvalidStructure", itemIndex, -1)
              ELSE Ret(clonedData)

formatLiteLLMResponse(data, strictMode, itemIndex) ==
    Only({IF ~cloned.ok THEN Throw("SyntaxError", -1, -1)
          ELSE FormatCloned(cloned.v, strictMode, itemIndex)
          : cloned \in {JsonClone(data)}})

(***************************************************************************)
(* The documents the normalizer is applied to.                             *)
(***************************************************************************)
MaxChoices == 2

Absent == [t |-> "absent"]

\* The one-key map key :> v, or no key at all.
Put(key, v) == IF v = Absent THEN EmptyMap ELSE (key :> v)

RECURSIVE SeqsOfLen(_, _)

SeqsOfLen(S, n) ==
    IF n = 0 THEN {<<>>}
    ELSE {Append(s, e) : s \in SeqsOfLen(S, n - 1), e \in S}

SeqsUpTo(S, n) == UNION {SeqsOfLen(S, k) : k \in 0..n}

SomeToolCalls == Arr(<<Obj([id |-> Num(1)])>>)

SomeFunctionCall == Obj([name |-> Word("f")])

SomeAnnotations == Arr(<<Num(1)>>)

MsgOf(tc, fc, an) ==
    Obj(Put("tool_calls", tc) @@ Put("function_call", fc)
        @@ Put("annotations", an))

Messages ==
    {MsgOf(tc, fc, an) : tc \in {Absent, Null, SomeToolCalls},
                         fc \in {Absent, Null, SomeFunctionCall},
                         an \in {Absent, Null, SomeAnnotations}}
    \cup {MsgOf(EmptyArr, EmptyObj, EmptyArr), MsgOf(Undef, Undef, Undef),
          MsgOf(Null, Undef, Absent)}

MessageSlots ==
    Messages \cup {Absent, Null, Bool(FALSE), Num(0), Str(<<>>), Num(1),
                   Word("hi"), Bool(TRUE), EmptyArr, Arr(<<Num(1)>>)}

ChoiceOf(slot) == Obj(Put("message", slot) @@ [index |-> Num(0)])

Choices ==
    {ChoiceOf(slot) : slot \in MessageSlots}
    \cup {Null, Num(1), Word("c"), EmptyArr, EmptyObj,
          Obj([message |-> MsgOf(Null, Absent, Null)])}

SmallChoices ==
    {ChoiceOf(MsgOf(Null, Null, Null)), ChoiceOf(MsgOf(Absent, Absent, Absent)),
     ChoiceOf(MsgOf(SomeToolCalls, SomeFunctionCall, SomeAnnotations)),
     ChoiceOf(Absent), ChoiceOf(Null), ChoiceOf(Num(1)), ChoiceOf(EmptyArr),
     Null}

DocOf(choices) == Obj(Put("choices", choices) @@ [model |-> Word("m")])

Docs ==
    {DocOf(Arr(<<c>>)) : c \in Choices}
    \cup {DocOf(Arr(s)) : s \in SeqsUpTo(SmallChoices, MaxChoices)}
    \cup {DocOf(c) : c \in {Absent, Undef, Null, Num(0), Num(1), Str(<<>>),
                            Word("x"), Bool(TRUE), Obj([index |-> Num(1)])}}
    \cup {Null, Undef, Num(0), Num(1), Bool(TRUE), Str(<<>>), Word("doc"),
          EmptyArr, Arr(<<Num(1)>>), EmptyObj,
          Obj([choices |-> Arr(<<EmptyObj>>)])}

(***************************************************************************)
(* The object heap.  A cell is an object or an array whose members are     *)
(* slots: a primitive value, or a reference Ref(r) to the cell at address  *)
(* r.  The heap is the sequence of the cells allocated so far.             *)
(***************************************************************************)
Ref(r) == [t |-> "ref", r |-> r]

RECURSIVE Alloc(_, _), AllocElems(_, _, _, _), AllocMembers(_, _, _, _)

\* Builds the value v out of fresh cells: [h, s], the heap and v's slot.
Alloc(h, v) ==
    CASE v.t = "arr" ->
             Only({Only({[h |-> Append(n.h, [t |-> "arr", a |-> e.s,
                                             x |-> n.s]),
                          s |-> Ref(Len(n.h) + 1)]
                         : n \in {AllocMembers(e.h, v.x, OwnKeys(v.x),
                                               EmptyMap)}})
                   : e \in {AllocElems(h, v.a, 1, <<>>)}})
      [] v.t = "obj" ->
             Only({[h |-> Append(m.h, [t |-> "obj", o |-> m.s]),
                    s |-> Ref(Len(m.h) + 1)]
                   : m \in {AllocMembers(h, v.o, OwnKeys(v.o), EmptyMap)}})
      [] OTHER -> [h |-> h, s |-> v]

AllocElems(h, elems, i, acc) ==
    IF i > Len(elems) THEN [h |-> h, s |-> acc]
    ELSE Only({AllocElems(r.h, elems, i + 1, Append(acc, r.s))
               : r \in {Alloc(h, elems[i])}})

AllocMembers(h, f, keys, acc) ==
    IF keys = <<>> THEN [h |-> h, s |-> acc]
    ELSE Only({AllocMembers(r.h, f, Tail(keys), (Head(keys) :> r.s) @@ acc)
               : r \in {Alloc(h, f[Head(keys)])}})

\* The value a slot holds.
RECURSIVE Decode(_, _), DecodeElems(_, _, _), DecodeMembers(_, _, _)

Decode(h, s) ==
    IF s.t # "ref" THEN s
    ELSE LET c == h[s.r] IN
         IF c.t = "obj"
         THEN Obj(DecodeMembers(h, c.o, OwnKeys(c.o)))
         ELSE [t |-> "arr",
               a |-> DecodeElems(h, c.a, 1),
               x |-> DecodeMembers(h, c.x, OwnKeys(c.x))]

DecodeMembers(h, f, keys) ==
    IF keys = <<>> THEN EmptyMap
    ELSE (Head(keys) :> Decode(h, f[Head(keys)]))
         @@ DecodeMembers(h, f, Tail(keys))

DecodeElems(h, elems, j) ==
    IF j > Len(elems) THEN <<>>
    ELSE <<Decode(h, elems[j])>> \o DecodeElems(h, elems, j + 1)

\* The addresses of the cells a slot reaches.
RECURSIVE Reach(_, _)

Reach(h, s) ==
    IF s.t # "ref" THEN {}
    ELSE LET c == h[s.r] IN
         {s.r} \cup
         IF c.t = "obj"
         THEN UNION {Reach(h, c.o[key]) : key \in DOMAIN c.o}
         ELSE UNION {Reach(h, c.a[i]) : i \in DOMAIN c.a}
              \cup UNION {Reach(h, c.x[key]) : key \in DOMAIN c.x}

\* Property read s[key] of a slot that is neither null nor undefined.
HGet(h, s, key) ==
    IF s.t # "ref" THEN Undef
    ELSE LET c == h[s.r] IN
         IF c.t = "obj"
         THEN IF key \in DOMAIN c.o THEN c.o[key] ELSE Undef
         ELSE IF key \in DOMAIN c.x THEN c.x[key] ELSE Undef

\* The assignment s[key] = <a new empty array or object> on a cell.
HSetNew(h, s, key, empty) ==
    LET fresh == Alloc(h, empty)
        c == h[s.r]
    IN  [fresh.h EXCEPT ![s.r] =
            IF c.t = "obj"
            THEN [c EXCEPT !.o = (key :> fresh.s) @@ c.o]
            ELSE [c EXCEPT !.x = (key :> fresh.s) @@ c.x]]

\* CloneOnHeap without the clone: clonedData is data itself.
AliasOnHeap(h, data) == [ok |-> TRUE, h |-> h, s |-> data]

\* Line 161 on the heap: the text of data is written, then parsed into
\* cells of its own.
CloneOnHeap(h, data) ==
    Only({IF ~parsed.ok THEN [ok |-> FALSE, h |-> h, s |-> Undef]
          ELSE Only({[ok |-> TRUE, h |-> r.h, s |-> r.s]
                     : r \in {Alloc(h, parsed.v)}})
          : parsed \in {JsonClone(Decode(h, data))}})

\* Lines 169-182 on the heap: [kind, h].
CoerceOnHeap(h, message) ==
    LET h1 == IF HGet(h, message, "tool_calls") = Null
              THEN HSetNew(h, message, "tool_calls", EmptyArr)
              ELSE h
        h2 == IF HGet(h1, message, "function_call") = Null
              THEN HSetNew(h1, message, "function_call", EmptyObj)
              ELSE h1
        annotations == HGet(h2, message, "annotations")
    IN  IF annotations = Null \/ annotations = Undef
        THEN IF message.t = "ref"
             THEN [kind |-> "ok",
                   h |-> HSetNew(h2, message, "annotations", EmptyArr)]
             ELSE [kind |-> "TypeError", h |-> h2]
        ELSE [kind |-> "ok", h |-> h2]

(***************************************************************************)
(* LiteLLMFormatter.execute (lines 68-155).  An item is a map with the     *)
(* key json (a map from field names to values) and, when it has them, the  *)
(* keys binary and pairedItem.  An error is [kind, itemIndex, choiceIndex, *)
(* cause].                                                                 *)
(***************************************************************************)
Item(json, binary, pairedItem) ==
    [json |-> json] @@ Put("binary", binary) @@ Put("pairedItem", pairedItem)

\* The property read item[key]: undefined when the item has no such key.
ItemGet(item, key) == IF key \in DOMAIN item THEN item[key] ELSE Undef

NoError == [kind |-> "none", itemIndex |-> -1, choiceIndex |-> -1, cause |-> ""]

\* A NodeOperationError built with { itemIndex } (lines 88, 104, 184, 192).
OperationError(kind, itemIndex, choiceIndex) ==
    [kind |-> kind, itemIndex |-> itemIndex, choiceIndex |-> choiceIndex,
     cause |-> ""]

\* Caught without the instanceof test of line 136: every error is wrapped.
CaughtWrapAll(thrown, itemIndex) ==
    [kind |-> "ErrorProcessingItem", itemIndex |-> itemIndex,
     choiceIndex |-> -1, cause |-> thrown.kind]

\* Lines 135-144: a NodeOperationError is thrown again as it is, any other
\* error is wrapped with the index of the item.
Caught(thrown, itemIndex) ==
    IF thrown.kind \in {"InvalidStructure", "MissingMessage"}
    THEN OperationError(thrown.kind, thrown.itemIndex, thrown.choiceIndex)
    ELSE [kind |-> "ErrorProcessingItem", itemIndex |-> itemIndex,
          choiceIndex |-> -1, cause |-> thrown.kind]

\* Line 77.  items[0] of an empty input is undefined.
ItemsToProcess(items, processAllItems) ==
    IF processAllItems THEN items
    ELSE <<IF Len(items) > 0 THEN items[1] ELSE Undef>>

\* NewItem with the spread of line 121 after the output field, so that a
\* field the item has already wins.
NewItemSpreadLast(item, outputField, formattedData) ==
    [json |-> item.json @@ (outputField :> formattedData)]
    @@ (IF Truthy(ItemGet(item, "binary"))
        THEN "binary" :> item.binary ELSE EmptyMap)
    @@ (IF Truthy(ItemGet(item, "pairedItem"))
        THEN "pairedItem" :> item.pairedItem ELSE EmptyMap)

\* Lines 118-132.
NewItem(item, outputField, formattedData) ==
    [json |-> (outputField :> formattedData) @@ item.json]
    @@ (IF Truthy(ItemGet(item, "binary"))
        THEN "binary" :> item.binary ELSE EmptyMap)
    @@ (IF Truthy(ItemGet(item, "pairedItem"))
        THEN "pairedItem" :> item.pairedItem ELSE EmptyMap)

\* Pushed pushing a new item that holds the json of the item alone.
PushedJsonOnly(item, called) ==
    [kind |-> "push", item |-> [json |-> item.json], error |-> NoError,
     called |-> called]

\* Lines 81-144: one iteration of the loop.  The result is
\* [kind, item, error, called]: kind "push" with the item pushed on
\* returnData, or "throw" with the error thrown out of execute; called
\* tells whether formatLiteLLMResponse was called.

Pushed(item, called) ==
    [kind |-> "push", item |-> item, error |-> NoError, called |-> called]

Thrown(error, called) ==
    [kind |-> "throw", item |-> Undef, error |-> error, called |-> called]

Formatted(item, inputData, itemIndex, outputField, strictMode) ==
    Only({IF formattedData.kind = "ok"
          THEN Pushed(NewItem(item, outputField, formattedData.val), TRUE)
          ELSE Thrown(Caught(formattedData, itemIndex), TRUE)
          : formattedData \in {formatLiteLLMResponse(inputData, strictMode,
                                                     itemIndex)}})

ProcessItem(item, itemIndex, inputField, outputField, strictMode) ==
    IF "json" \notin DOMAIN item
    THEN Thrown(Caught(Throw("TypeError", -1, -1), itemIndex), FALSE)
    ELSE LET inputData == ItemGet(item.json, inputField) IN
         IF ~Truthy(inputData)
         THEN IF strictMode
              THEN Thrown(OperationError("InputFieldNotFound", itemIndex, -1),
                          FALSE)
              ELSE Pushed(item, FALSE)
         ELSE IF inputData.t = "str"
              THEN Only({IF parsed.ok
                         THEN Formatted(item, parsed.v, itemIndex, outputField,
                                        strictMode)
                         ELSE IF strictMode
                              THEN Thrown(OperationError("FailedToParseJSON",
                                                         itemIndex, -1), FALSE)
                              ELSE Pushed(item, FALSE)
                         : parsed \in {JsonParse(inputData.s)}})
              ELSE Formatted(item, inputData, itemIndex, outputField,
                             strictMode)

\* Remaining with the loop of line 149 starting at 0.
RemainingFromFirst(items, processAllItems) ==
    IF ~processAllItems /\ Len(items) > 1 THEN items ELSE <<>>

\* Lines 147-152: the items after the first, when only the first is processed.
Remaining(items, processAllItems) ==
    IF ~processAllItems /\ Len(items) > 1
    THEN SubSeq(items, 2, Len(items))
    ELSE <<>>

(***************************************************************************)
(* The input items of a run.                                               *)
(***************************************************************************)
MaxItems == 2

\* The JSON text of a value, as a string.
Text(v) == Str(JsonStringify(v))

\* The text {"choices":[{"message":{"tool_calls":null,"annotations":null}}]}
ScenarioText ==
    <<P("{"), Q(<<W("choices")>>), P(":"), P("["), P("{"),
      Q(<<W("message")>>), P(":"), P("{"),
      Q(<<W("tool_calls")>>), P(":"), W("null"), P(","),
      Q(<<W("annotations")>>), P(":"), W("null"),
      P("}"), P("}"), P("]"), P("}")>>

SomeBinary == Obj([data |-> Word("bytes")])

GoodDoc == DocOf(Arr(<<ChoiceOf(MsgOf(Null, Null, Absent))>>))

Records ==
    {Item([id |-> Num(1)], Absent, Absent),
     Item([data |-> Num(0)], Absent, Num(1)),
     Item([data |-> Word("hello"), id |-> Num(2)], SomeBinary, Num(0)),
     Item([data |-> Str(ScenarioText)], Absent, Absent),
     Item([data |-> Text(Null)], Absent, Absent),
     Item([data |-> Text(EmptyObj), out |-> Word("old")], Absent, Absent),
     Item([data |-> EmptyObj, id |-> Num(3)], SomeBinary, Num(1)),
     Item([data |-> DocOf(Arr(<<Null>>))], Absent, Absent),
     Item([data |-> DocOf(Arr(<<ChoiceOf(MsgOf(Null, Null, Null)), EmptyObj>>))],
          Absent, Absent),
     Item([data |-> DocOf(Arr(<<ChoiceOf(Num(1))>>))], Absent, Absent),
     Item([data |-> GoodDoc, id |-> Num(4), out |-> Word("old")], SomeBinary,
          Obj([item |-> Num(0)])),
     Item([data |-> GoodDoc], Absent, Num(0))}

(***************************************************************************)
(* State.                                                                  *)
(***************************************************************************)
VARIABLES
    doc,        \* the value of the argument data when the normalizer is called
    strict,     \* the argument strictMode
    fpc,        \* SpecFmt: how often the normalizer was applied
    res1,       \* the result of formatLiteLLMResponse(doc, strict)
    res2,       \* the result of formatLiteLLMResponse(res1.val, strict)
    heap,       \* SpecHeap: the cells allocated so far
    data,       \* the slot of the argument data
    clonedData, \* the slot of the local clonedData
    i,          \* the loop variable i of line 165
    hpc,        \* the position in formatLiteLLMResponse
    herr,       \* the error formatLiteLLMResponse threw
    items,            \* Spec: the input items, this.getInputData()
    inputField,       \* the node parameters
    outputField,
    processAllItems,
    strictMode,
    itemIndex,        \* the loop variable of line 79
    returnData,       \* the local returnData
    pc,               \* the position in execute: "loop", "done", "error"
    error,            \* the error execute threw
    output,           \* <<returnData>> once execute returned [returnData]
    invoked           \* the itemIndex of every call of formatLiteLLMResponse

fmtVars == <<fpc, res1, res2>>

heapVars == <<heap, data, clonedData, i, hpc, herr>>

execVars ==
    <<items, inputField, outputField, processAllItems, strictMode, itemIndex,
      returnData, pc, error, output, invoked>>

vars == <<doc, strict, fmtVars, heapVars, execVars>>

NoResult == Throw("none", -1, -1)

FmtIdle == fpc = "idle" /\ res1 = NoResult /\ res2 = NoResult

ExecIdle ==
    /\ items = <<>>
    /\ inputField = "data"
    /\ outputField = "data"
    /\ processAllItems = TRUE
    /\ strictMode = FALSE
    /\ itemIndex = 0
    /\ returnData = <<>>
    /\ pc = "idle"
    /\ error = NoError
    /\ output = <<>>
    /\ invoked = {}

HeapIdle ==
    /\ heap = <<>>
    /\ data = Undef
    /\ clonedData = Undef
    /\ i = 0
    /\ hpc = "idle"
    /\ herr = "none"

(***************************************************************************)
(* SpecFmt: the normalizer applied to a document, then to its own result.  *)
(***************************************************************************)
InitFmt ==
    /\ doc \in Docs
    /\ strict \in BOOLEAN
    /\ fpc = "start"
    /\ res1 = NoResult
    /\ res2 = NoResult
    /\ HeapIdle
    /\ ExecIdle

Normalize ==
    /\ fpc = "start"
    /\ res1' = formatLiteLLMResponse(doc, strict, 0)
    /\ fpc' = "once"
    /\ UNCHANGED <<doc, strict, res2, heapVars, execVars>>

NormalizeAgain ==
    /\ fpc = "once"
    /\ res1.kind = "ok"
    /\ res2' = formatLiteLLMResponse(res1.val, strict, 0)
    /\ fpc' = "twice"
    /\ UNCHANGED <<doc, strict, res1, heapVars, execVars>>

NextFmt == Normalize \/ NormalizeAgain

SpecFmt == InitFmt /\ [][NextFmt]_vars

(***************************************************************************)
(* SpecHeap: formatLiteLLMResponse statement by statement on the heap.     *)
(***************************************************************************)
InitHeap ==
    /\ doc \in Docs
    /\ strict \in BOOLEAN
    /\ FmtIdle
    /\ ExecIdle
    /\ heap = Alloc(<<>>, doc).h
    /\ data = Alloc(<<>>, doc).s
    /\ clonedData = Undef
    /\ i = 0
    /\ hpc = "clone"
    /\ herr = "none"

HThrow(kind) ==
    /\ hpc' = "thrown"
    /\ herr' = kind

\* Line 161.
HClone ==
    /\ hpc = "clone"
    /\ \E c \in {CloneOnHeap(heap, data)} :
       IF c.ok
       THEN /\ heap' = c.h
            /\ clonedData' = c.s
            /\ hpc' = "check"
            /\ UNCHANGED herr
       ELSE /\ HThrow("SyntaxError")
            /\ UNCHANGED <<heap, clonedData>>
    /\ UNCHANGED <<doc, strict, fmtVars, execVars, data, i>>

\* Lines 164 and 191-199.
HCheck ==
    /\ hpc = "check"
    /\ IF clonedData.t \in {"null", "undef"}
       THEN HThrow("TypeError")
       ELSE LET choices == HGet(heap, clonedData, "choices") IN
            IF Truthy(choices) /\ choices.t = "ref" /\ heap[choices.r].t = "arr"
            THEN hpc' = "loop" /\ UNCHANGED herr
            ELSE IF strict
                 THEN HThrow("InvalidStructure")
                 ELSE hpc' = "returned" /\ UNCHANGED herr
    /\ UNCHANGED <<doc, strict, fmtVars, execVars, heap, data, clonedData, i>>

\* Lines 165-190: one iteration.
HChoice ==
    /\ hpc = "loop"
    /\ LET choices == heap[HGet(heap, clonedData, "choices").r].a IN
       /\ i < Len(choices)
       /\ LET choice == choices[i + 1] IN
          IF choice.t \in {"null", "undef"}
          THEN HThrow("TypeError") /\ UNCHANGED <<heap, i>>
          ELSE LET message == HGet(heap, choice, "message") IN
               IF Truthy(message)
               THEN \E c \in {CoerceOnHeap(heap, message)} :
                    /\ heap' = c.h
                    /\ IF c.kind = "ok"
                       THEN i' = i + 1 /\ UNCHANGED <<hpc, herr>>
                       ELSE HThrow(c.kind) /\ UNCHANGED i
               ELSE IF strict
                    THEN HThrow("MissingMessage") /\ UNCHANGED <<heap, i>>
                    ELSE i' = i + 1 /\ UNCHANGED <<heap, hpc, herr>>
    /\ UNCHANGED <<doc, strict, fmtVars, execVars, data, clonedData>>

\* Line 199, after the loop.
HReturn ==
    /\ hpc = "loop"
    /\ i = Len(heap[HGet(heap, clonedData, "choices").r].a)
    /\ hpc' = "returned"
    /\ UNCHANGED <<doc, strict, fmtVars, execVars, heap, data, clonedData, i, herr>>

NextHeap == HClone \/ HCheck \/ HChoice \/ HReturn

SpecHeap == InitHeap /\ [][NextHeap]_vars

(***************************************************************************)
(* Spec: execute, one step per iteration of the loop of line 79.           *)
(***************************************************************************)
Init ==
    /\ items \in SeqsUpTo(Records, MaxItems)
    /\ inputField = "data"
    /\ outputField \in {"data", "out"}
    /\ processAllItems \in BOOLEAN
    /\ strictMode \in BOOLEAN
    /\ itemIndex = 0
    /\ returnData = <<>>
    /\ pc = "loop"
    /\ error = NoError
    /\ output = <<>>
    /\ invoked = {}
    /\ doc = Undef
    /\ strict = FALSE
    /\ FmtIdle
    /\ HeapIdle

itemsToProcess == ItemsToProcess(items, processAllItems)

\* The iteration at itemIndex, were it to run now.
Iteration ==
    ProcessItem(itemsToProcess[itemIndex + 1], itemIndex, inputField,
                outputField, strictMode)

\* Lines 86-96 and 99-112 in non-strict mode: the item is pushed as it is.
PassThrough ==
    /\ pc = "loop"
    /\ itemIndex < Len(itemsToProcess)
    /\ \E r \in {Iteration} :
          /\ r.kind = "push"
          /\ ~r.called
          /\ returnData' = Append(returnData, r.item)
    /\ itemIndex' = itemIndex + 1
    /\ UNCHANGED <<items, inputField, outputField, processAllItems, strictMode,
                   pc, error, output, invoked>>
    /\ UNCHANGED <<doc, strict, fmtVars, heapVars>>

\* Lines 116-134: the item is formatted and the new item pushed.
FormatItem ==
    /\ pc = "loop"
    /\ itemIndex < Len(itemsToProcess)
    /\ \E r \in {Iteration} :
          /\ r.kind = "push"
          /\ r.called
          /\ returnData' = Append(returnData, r.item)
    /\ invoked' = invoked \cup {itemIndex}
    /\ itemIndex' = itemIndex + 1
    /\ UNCHANGED <<items, inputField, outputField, processAllItems, strictMode,
                   pc, error, output>>
    /\ UNCHANGED <<doc, strict, fmtVars, heapVars>>

\* Lines 135-144: the iteration throws, and execute with it.
Abort ==
    /\ pc = "loop"
    /\ itemIndex < Len(itemsToProcess)
    /\ \E r \in {Iteration} :
          /\ r.kind = "throw"
          /\ error' = r.error
          /\ invoked' = IF r.called THEN invoked \cup {itemIndex} ELSE invoked
    /\ pc' = "error"
    /\ UNCHANGED <<items, inputField, outputField, processAllItems, strictMode,
                   itemIndex, returnData, output>>
    /\ UNCHANGED <<doc, strict, fmtVars, heapVars>>

\* Lines 147-154, after the loop.
Finish ==
    /\ pc = "loop"
    /\ itemIndex = Len(itemsToProcess)
    /\ returnData' = returnData \o Remaining(items, processAllItems)
    /\ output' = <<returnData'>>
    /\ pc' = "done"
    /\ UNCHANGED <<items, inputField, outputField, processAllItems, strictMode,
                   itemIndex, error, invoked>>
    /\ UNCHANGED <<doc, strict, fmtVars, heapVars>>

Next == PassThrough \/ FormatItem \/ Abort \/ Finish

Spec == Init /\ [][Next]_vars

(***************************************************************************)
(* What the claims speak of.                                               *)
(***************************************************************************)
\* A JSON value: no undefined in it, no named property on an array.
RECURSIVE IsJson(_)

IsJson(v) ==
    CASE v.t = "obj"   -> \A key \in DOMAIN v.o : IsJson(v.o[key])
      [] v.t = "arr"   -> v.x = EmptyMap /\ \A j \in DOMAIN v.a : IsJson(v.a[j])
      [] v.t = "undef" -> FALSE
      [] OTHER         -> TRUE

\* Equal as JSON documents.
SameJson(a, b) == JsonStringify(a) = JsonStringify(b)

IsMapping(v) == v.t = "obj"

HasChoicesSeq(d) ==
    IsMapping(d) /\ "choices" \in DOMAIN d.o /\ d.o.choices.t = "arr"

HasMessageMapping(c) ==
    IsMapping(c) /\ "message" \in DOMAIN c.o /\ IsMapping(c.o.message)

LacksMessage(c) == ~(IsMapping(c) /\ "message" \in DOMAIN c.o)

Least(S) == CHOOSE m \in S : \A n \in S : m <= n

\* The message mapping m with the three fields coerced as section 4.1 says.
ExpectedMessage(m) ==
    Obj([key \in DOMAIN m.o \cup {"annotations"} |->
           CASE key = "annotations" ->
                    IF key \in DOMAIN m.o /\ m.o[key] # Null
                    THEN m.o[key] ELSE EmptyArr
             [] key = "tool_calls" ->
                    IF m.o[key] = Null THEN EmptyArr ELSE m.o[key]
             [] key = "function_call" ->
                    IF m.o[key] = Null THEN EmptyObj ELSE m.o[key]
             [] OTHER -> m.o[key]])

ExpectedChoice(c) ==
    IF HasMessageMapping(c)
    THEN Obj([key \in DOMAIN c.o |->
                IF key = "message" THEN ExpectedMessage(c.o[key]) ELSE c.o[key]])
    ELSE c

ExpectedDoc(d) ==
    Obj([key \in DOMAIN d.o |->
           IF key = "choices"
           THEN Arr([j \in 1..Len(d.o.choices.a) |->
                       ExpectedChoice(d.o.choices.a[j])])
           ELSE d.o[key]])

NoArrayMessage(d) ==
    \A j \in 1..Len(d.o.choices.a) :
        Get(d.o.choices.a[j], "message").t # "arr"

\* The two models of formatLiteLLMResponse agree.
HeapAgrees ==
    LET r == formatLiteLLMResponse(doc, strict, 0) IN
    /\ hpc = "returned" => r.kind = "ok" /\ Decode(heap, clonedData) = r.val
    /\ hpc = "thrown" => r.kind = herr

(***************************************************************************)
(* C1.  For every JSON document whose choices is a sequence, the document  *)
(* the normalizer returns is the input with, in the message mapping of     *)
(* every choice that has one, a null tool_calls replaced by [], a null     *)
(* function_call by {}, an absent or null annotations by []; absent        *)
(* tool_calls and function_call stay absent, non-null values and all the   *)
(* rest are unchanged; and it does return when every choice has a message  *)
(* mapping.                                                                *)
(***************************************************************************)
NullCoercion ==
    (fpc \in {"once", "twice"} /\ IsJson(doc) /\ HasChoicesSeq(doc)) =>
        /\ res1.kind = "ok" =>
               /\ SameJson(res1.val, ExpectedDoc(doc))
               /\ NoArrayMessage(doc) => res1.val = ExpectedDoc(doc)
        /\ (\A j \in 1..Len(doc.o.choices.a) :
                HasMessageMapping(doc.o.choices.a[j])) => res1.kind = "ok"

NullCoercionWitness ==
    /\ fpc = "once"
    /\ doc = DocOf(Arr(<<ChoiceOf(MsgOf(Null, Null, Null)),
                         ChoiceOf(MsgOf(Absent, Absent, Absent))>>))
    /\ res1.kind = "ok"
    /\ res1.val = DocOf(Arr(<<ChoiceOf(MsgOf(EmptyArr, EmptyObj, EmptyArr)),
                              ChoiceOf(MsgOf(Absent, Absent, EmptyArr))>>))

(***************************************************************************)
(* C2.  Non-mutation: in every state of a call of the normalizer, returned *)
(* or failed, the argument still holds the value it held before the call,  *)
(* and the returned document shares no cell with it.                       *)
(***************************************************************************)
NonMutation ==
    hpc # "idle" =>
        /\ Decode(heap, data) = doc
        /\ hpc = "returned" =>
               Reach(heap, clonedData) \cap Reach(heap, data) = {}

NonMutationWitness ==
    /\ hpc = "returned"
    /\ doc = DocOf(Arr(<<ChoiceOf(MsgOf(Null, Null, Null))>>))
    /\ Decode(heap, clonedData) # doc
    /\ Reach(heap, data) # {}
    /\ Reach(heap, clonedData) # {}

(***************************************************************************)
(* C3.  Idempotence: when the normalizer returns r for a document and a    *)
(* strict flag, it returns for r and the same flag too, and returns r.     *)
(***************************************************************************)
Idempotence == fpc = "twice" => res2.kind = "ok" /\ res2.val = res1.val

IdempotenceWitness ==
    /\ fpc = "twice"
    /\ ~strict
    /\ doc = DocOf(Arr(<<ChoiceOf(MsgOf(Null, Null, Null)), ChoiceOf(Absent)>>))
    /\ res1.val # doc
    /\ res2 = res1

(***************************************************************************)
(* C4.  Strict/lenient duality: in strict mode the normalizer fails        *)
(* exactly when choices is missing or no sequence (invalid structure) or   *)
(* some choice lacks a message field (missing message, at the lowest such  *)
(* index); in non-strict mode it never fails, returns a document without   *)
(* a choices sequence unchanged, leaves a choice lacking a message         *)
(* unchanged and coerces the others.                                       *)
(***************************************************************************)
LackingMessage(d) ==
    {j \in 1..Len(d.o.choices.a) : LacksMessage(d.o.choices.a[j])}

StrictLenientDuality ==
    (fpc = "once" /\ IsJson(doc) /\ IsMapping(doc)) =>
        IF strict
        THEN IF ~HasChoicesSeq(doc)
             THEN res1.kind = "InvalidStructure"
             ELSE IF LackingMessage(doc) # {}
                  THEN /\ res1.kind = "MissingMessage"
                       /\ res1.choiceIndex = Least(LackingMessage(doc)) - 1
                  ELSE res1.kind = "ok"
        ELSE /\ res1.kind = "ok"
             /\ ~HasChoicesSeq(doc) => res1.val = doc
             /\ HasChoicesSeq(doc) =>
                    \A j \in 1..Len(doc.o.choices.a) :
                        LET c == doc.o.choices.a[j] IN
                        (LacksMessage(c) \/ HasMessageMapping(c)) =>
                            res1.val.o.choices.a[j] = ExpectedChoice(c)
(***************************************************************************)
(* The records of a run, as the claims class them.                         *)
(***************************************************************************)
InputOf(it) == ItemGet(it.json, inputField)

FieldFalsy(it) == ~Truthy(InputOf(it))

TextInvalid(it) ==
    /\ ~FieldFalsy(it)
    /\ InputOf(it).t = "str"
    /\ ~JsonParse(InputOf(it).s).ok

\* The document of a record with a usable input field.
DocumentOf(it) ==
    IF InputOf(it).t = "str" THEN JsonParse(InputOf(it).s).v ELSE InputOf(it)

LacksChoices(it) ==
    /\ ~FieldFalsy(it)
    /\ ~TextInvalid(it)
    /\ IsMapping(DocumentOf(it))
    /\ ~HasChoicesSeq(DocumentOf(it))

\* The positions of the records the loop of line 79 goes through.
Selected ==
    IF processAllItems THEN 1..Len(items)
    ELSE IF Len(items) > 0 THEN {1} ELSE {}

(***************************************************************************)
(* C5.  The scenario of section 8: one record whose data holds the text    *)
(* {"choices":[{"message":{"tool_calls":null,"annotations":null}}]}, both  *)
(* fields "data", every record processed, non-strict.  The run does not    *)
(* fail and returns one record whose data is the structured document with  *)
(* message {tool_calls: [], annotations: []}: function_call, absent in the *)
(* input, is absent in the output.                                         *)
(***************************************************************************)
Scenario ==
    /\ items = <<Item([data |-> Str(ScenarioText)], Absent, Absent)>>
    /\ inputField = "data"
    /\ outputField = "data"
    /\ processAllItems
    /\ ~strictMode

ScenarioOutput(message) ==
    <<<<[json |-> [data |-> Obj([choices |->
                                   Arr(<<Obj([message |-> message])>>)])]]>>>>

EndToEndScenario ==
    Scenario =>
        /\ pc # "error"
        /\ pc = "done" =>
               output = ScenarioOutput(Obj([tool_calls |-> EmptyArr,
                                            annotations |-> EmptyArr]))

\* The output section 8 gives: function_call is {} in it.
EndToEndScenarioAsStated ==
    Scenario =>
        /\ pc # "error"
        /\ pc = "done" =>
               output = ScenarioOutput(Obj([tool_calls |-> EmptyArr,
                                            function_call |-> EmptyObj,
                                            annotations |-> EmptyArr]))

EndToEndScenarioWitness ==
    Scenario /\ pc = "done" /\ invoked = {0} /\ Len(output[1]) = 1

(***************************************************************************)
(* C6.  Batch policy: a finished run returns one sequence with as many     *)
(* records as the input, the record at each position being the one that    *)
(* processing the input record at that position alone gives, equal to it   *)
(* in every json field other than outputField; and when processAllItems    *)
(* is false only the record at position 0 is processed, the others being   *)
(* the input records themselves.                                           *)
(***************************************************************************)
BatchPolicy ==
    pc = "done" =>
        /\ output = <<returnData>>
        /\ Len(returnData) = Len(items)
        /\ invoked \subseteq {k - 1 : k \in Selected}
        /\ \A k \in 1..Len(items) :
              /\ DOMAIN returnData[k].json \ {outputField}
                     = DOMAIN items[k].json \ {outputField}
              /\ \A key \in DOMAIN items[k].json \ {outputField} :
                     returnData[k].json[key] = items[k].json[key]
              /\ k \in Selected =>
                     returnData[k] = ProcessItem(items[k], k - 1, inputField,
                                                 outputField, strictMode).item
              /\ k \notin Selected => returnData[k] = items[k]

BatchPolicyWitness ==
    /\ pc = "done"
    /\ ~processAllItems
    /\ Len(items) = 2
    /\ items[2] = Item([data |-> Str(ScenarioText)], Absent, Absent)
    /\ invoked = {0}
    /\ returnData[1] # items[1]
    /\ returnData[2] = items[2]

(***************************************************************************)
(* C7.  Output placement and frame: the record put out for a record that   *)
(* was normalized has the normalized document in outputField, every other  *)
(* json field as in the input, and the binary and pairedItem of the input  *)
(* record, whatever their value.                                           *)
(***************************************************************************)
OutputPlacementFrame ==
    \A k \in Selected :
        (k <= Len(returnData) /\ (k - 1) \in invoked) =>
            /\ DOMAIN returnData[k].json = DOMAIN items[k].json \cup {outputField}
            /\ returnData[k].json[outputField]
                   = formatLiteLLMResponse(DocumentOf(items[k]), strictMode,
                                           k - 1).val
            /\ \A key \in DOMAIN items[k].json \ {outputField} :
                   returnData[k].json[key] = items[k].json[key]
            /\ ItemGet(returnData[k], "binary") = ItemGet(items[k], "binary")
            /\ ItemGet(returnData[k], "pairedItem")
                   = ItemGet(items[k], "pairedItem")

(***************************************************************************)
(* C8.  Non-strict mode.  A record whose input field is absent or falsy,   *)
(* or is text that is no JSON, does not abort the run and is put out as    *)
(* it is, the normalizer not being called.  A record whose document is a   *)
(* mapping without a choices sequence does not abort the run either, but   *)
(* the normalizer is called and the record put out has the json of the     *)
(* input with outputField holding the parsed document.                     *)
(***************************************************************************)
NonStrictPassThrough ==
    ~strictMode =>
        \A k \in Selected :
            /\ (FieldFalsy(items[k]) \/ TextInvalid(items[k])
                    \/ LacksChoices(items[k]))
                   => ~(pc = "error" /\ itemIndex = k - 1)
            /\ k <= Len(returnData) =>
                   /\ (FieldFalsy(items[k]) \/ TextInvalid(items[k])) =>
                          /\ returnData[k] = items[k]
                          /\ (k - 1) \notin invoked
                   /\ LacksChoices(items[k]) =>
                          /\ (k - 1) \in invoked
                          /\ returnData[k].json
                                 = (outputField :> DocumentOf(items[k]))
                                       @@ items[k].json

\* As section 6 has it: in the three cases the record is put out unchanged.
NonStrictPassThroughAsStated ==
    ~strictMode =>
        \A k \in Selected :
            (FieldFalsy(items[k]) \/ TextInvalid(items[k])
                 \/ LacksChoices(items[k])) =>
                /\ ~(pc = "error" /\ itemIndex = k - 1)
                /\ k <= Len(returnData) => returnData[k] = items[k]

NonStrictPassThroughWitness ==
    /\ pc = "done"
    /\ ~strictMode
    /\ processAllItems
    /\ outputField = "out"
    /\ items = <<Item([data |-> Word("hello"), id |-> Num(2)], SomeBinary, Num(0)),
                 Item([data |-> Text(EmptyObj), out |-> Word("old")], Absent,
                      Absent)>>
    /\ returnData[1] = items[1]
    /\ returnData[2].json = [data |-> Text(EmptyObj), out |-> EmptyObj]
    /\ invoked = {1}

(***************************************************************************)
(* C9.  Strict mode.  The records the loop goes through (all of them when  *)
(* processAllItems is true, the one at position 0 otherwise) are taken in  *)
(* order, and the first that has an absent or falsy input field, text that *)
(* is no JSON, a document without a choices array, a choice whose message  *)
(* is absent or falsy, or a structure on which processing raises another   *)
(* error (a null document, a null choice, a message that is a primitive)   *)
(* aborts the run: nothing is returned, no later record is processed, and  *)
(* the error carries the index of that record, an error of the normalizer  *)
(* reaching the caller as it was raised.                                   *)
(***************************************************************************)
ChoiceOffence(c) ==
    IF c = Null THEN "ErrorProcessingItem"
    ELSE IF ~Truthy(Get(c, "message")) THEN "MissingMessage"
    ELSE IF Get(c, "message").t \notin {"obj", "arr"} THEN "ErrorProcessingItem"
    ELSE "none"

Offence(it) ==
    IF FieldFalsy(it) THEN "InputFieldNotFound"
    ELSE IF TextInvalid(it) THEN "FailedToParseJSON"
    ELSE IF DocumentOf(it) = Null THEN "ErrorProcessingItem"
    ELSE IF ~HasChoicesSeq(DocumentOf(it)) THEN "InvalidStructure"
    ELSE LET choices == DocumentOf(it).o.choices.a
             bad == {j \in 1..Len(choices) : ChoiceOffence(choices[j]) # "none"}
         IN  IF bad = {} THEN "none" ELSE ChoiceOffence(choices[Least(bad)])

Offending == {k \in Selected : Offence(items[k]) # "none"}

StrictAbort ==
    (strictMode /\ pc \in {"done", "error"} /\ Offending # {}) =>
        /\ pc = "error"
        /\ output = <<>>
        /\ error.itemIndex = Least(Offending) - 1
        /\ error.kind = Offence(items[Least(Offending)])
        /\ Len(returnData) = Least(Offending) - 1
        /\ invoked \subseteq 0..(Least(Offending) - 1)

\* As section 7 has it: any record of the input with one of the four
\* conditions aborts the run, with the index of the first such record.
StatedOffending ==
    {k \in 1..Len(items) :
        \/ FieldFalsy(items[k])
        \/ TextInvalid(items[k])
        \/ ~HasChoicesSeq(DocumentOf(items[k]))
        \/ LackingMessage(DocumentOf(items[k])) # {}}

StrictAbortAsStated ==
    (strictMode /\ pc \in {"done", "error"} /\ StatedOffending # {}) =>
        /\ pc = "error"
        /\ output = <<>>
        /\ error.itemIndex = Least(StatedOffending) - 1

StrictAbortWitness ==
    /\ pc = "error"
    /\ strictMode
    /\ processAllItems
    /\ Len(items) = 2
    /\ Offending = {2}
    /\ invoked = {0, 1}
    /\ error = OperationError("MissingMessage", 1, 1)
    /\ output = <<>>

(***************************************************************************)
(* C10.  Non-strict mode: a run on a non-empty input never fails.          *)
(***************************************************************************)
NonStrictNeverFails == (~strictMode /\ Len(items) > 0) => pc # "error"
=============================================================================
